---- MODULE Spec2Model ----
(***************************************************************************)
(* The data-acquisition and upsert pipeline of hdx_dashboard:              *)
(* connexion_db.py (the refresh entry points and their worker pools) and   *)
(* webscraping.py (FetchPage, FetchPageSingle, Indicator, Indicators),     *)
(* over a PostgreSQL store with the tables Country, Indicator and          *)
(* Timed_Indicators.                                                       *)
(***************************************************************************)
EXTENDS Integers, Sequences, FiniteSets, TLC

\* ------------------------------------------------------------------ bounds
\* Days of the calendar the model runs through (date.today()).
MaxDay == 2
\* Refresh calls made one after the other in one behaviour.
MaxCalls == 2
\* Length of the country_list handed to a refresh call.
MaxCountries == 2
\* Countries of one services-coverages refresh (four pipelines per country).
MaxCoverageCountries == 1
\* Length of the list handed to _get_name_country on its own.
MaxIds == 3

\* ------------------------------------------------------- program constants
\* ThreadPoolExecutor(max_workers=...) of the four refresh entry points.
WorkersHealthStatus == 3
WorkersCoverage == 3
WorkersRiskFactors == 2
WorkersHealthSystems == 4
\* dataset_index = 0 of the pipelines that select the resource by index.
IndexZero == 0

None == "None"
NoExc == "none"
\* An optional row, date or index: << >> is Python's None, << x >> is x.
Nothing == << >>
Some(x) == << x >>

\* ------------------------------------------------------------ country codes
\* Letter case of alpha-3 codes: str.lower() and str.upper().
Lower(c) ==
    CASE c = "FRA" -> "fra" [] c = "DZA" -> "dza" [] c = "XYZ" -> "xyz"
      [] c = "F" -> "f" [] c = "R" -> "r" [] c = "A" -> "a" [] c = "D" -> "d" [] c = "Z" -> "z"
      [] OTHER -> c

Upper(c) ==
    CASE c = "fra" -> "FRA" [] c = "dza" -> "DZA" [] c = "xyz" -> "XYZ"
      [] c = "f" -> "F" [] c = "r" -> "R" [] c = "a" -> "A" [] c = "d" -> "D" [] c = "z" -> "Z"
      [] OTHER -> c

\* Iterating over a str yields its characters, each a str of length one.
Characters(c) ==
    CASE c = "fra" -> << "f", "r", "a" >>
      [] c = "dza" -> << "d", "z", "a" >>
      [] c = "FRA" -> << "F", "R", "A" >>
      [] c = "DZA" -> << "D", "Z", "A" >>
      [] OTHER -> << c >>

\* assets/countries.json, flattened in file order: the known alpha-3 codes and names.
CountriesJson ==
    << [alpha3 |-> "FRA", name |-> "france"], [alpha3 |-> "DZA", name |-> "algeria"] >>

\* Codes a caller passes in country_list (either letter case, known or not).
InputCodes == << "FRA", "dza", "XYZ" >>

RECURSIVE SubSeqOf(_, _)
\* The elements of a sequence at the positions of a set, in order.
SubSeqOf(seq, positions) ==
    IF seq = << >> THEN << >>
    ELSE (IF Len(seq) \in positions THEN SubSeqOf(SubSeq(seq, 1, Len(seq) - 1), positions)
                                          \o << seq[Len(seq)] >>
          ELSE SubSeqOf(SubSeq(seq, 1, Len(seq) - 1), positions))

\* The country lists of the refresh calls: some of the codes, no code twice, at
\* most MaxCountries of them.
CountryLists ==
    {SubSeqOf(InputCodes, P) :
        P \in {Q \in SUBSET (1..Len(InputCodes)) : Q # {} /\ Cardinality(Q) <= MaxCountries}}

\* FetchPage._get_country_name: the lowercased name of the code, or None.
GetCountryName(id_country) ==
    IF \E k \in 1..Len(CountriesJson) : Lower(CountriesJson[k].alpha3) = Lower(id_country)
    THEN LET k == CHOOSE k \in 1..Len(CountriesJson) :
                     /\ Lower(CountriesJson[k].alpha3) = Lower(id_country)
                     /\ \A j \in 1..(k - 1) : Lower(CountriesJson[j].alpha3) # Lower(id_country)
         IN CountriesJson[k].name
    ELSE None

\* ------------------------------------------------------------------ the store
\* Position of the columns in a row of table Indicator, as fetchone() returns it.
IndicatorColumns ==
    << "id_indicator", "id_country", "name_indicator", "source", "download", "update" >>

\* result[i] of a fetched Indicator row (0-based, as in Python).
ResultAt(result, i) == result[1][IndicatorColumns[i + 1]]

EmptyStore == [country |-> {}, indicator |-> {}, timed |-> {}]

CountryKey(r) == r.id_country
IndicatorKey(r) == << r.id_indicator, r.id_country >>
TimedKey(r) == << r.id_indicator, r.id_country, r.year_recorded, r.sexe >>

\* select(country_table).where(id_country == country_id).fetchone()
SelectCountry(st, country_id) ==
    IF \E r \in st.country : r.id_country = country_id
    THEN Some(CHOOSE r \in st.country : r.id_country = country_id)
    ELSE Nothing

\* select(indicator_table).where(id_indicator == .., id_country == ..).fetchone()
SelectIndicator(st, indicator, id_country) ==
    IF \E r \in st.indicator : IndicatorKey(r) = << indicator, id_country >>
    THEN Some(CHOOSE r \in st.indicator : IndicatorKey(r) = << indicator, id_country >>)
    ELSE Nothing

\* insert(country_table).values(new_row): a plain INSERT.
InsertCountry(st, new_row) == [st EXCEPT !.country = @ \cup {new_row}]

\* insert(indicator_table)...on_conflict_do_update(index_elements=[id_indicator, id_country],
\* set_={name_indicator, source, download, update})
UpsertIndicator(st, new_row) ==
    [st EXCEPT !.indicator =
        IF \E r \in @ : IndicatorKey(r) = IndicatorKey(new_row)
        THEN {IF IndicatorKey(r) = IndicatorKey(new_row)
              THEN [r EXCEPT !.name_indicator = new_row.name_indicator,
                             !.source = new_row.source,
                             !.download = new_row.download,
                             !.update = new_row.update]
              ELSE r : r \in @}
        ELSE @ \cup {new_row}]

\* ON CONFLICT DO NOTHING: the row of a stored key keeps its value.
InsertTimedKeepFirst(st, new_row) ==
    IF \E r \in st.timed : TimedKey(r) = TimedKey(new_row) THEN st
    ELSE [st EXCEPT !.timed = @ \cup {new_row}]

\* A plain INSERT into Timed_Indicators with no conflict clause.
InsertTimedNoConflict(st, new_row) == [st EXCEPT !.timed = @ \cup {new_row}]

\* insert(timed_indicators)...on_conflict_do_update(index_elements=[id_indicator, id_country,
\* year_recorded, sexe], set_={value})
UpsertTimed(st, new_row) ==
    [st EXCEPT !.timed =
        IF \E r \in @ : TimedKey(r) = TimedKey(new_row)
        THEN {IF TimedKey(r) = TimedKey(new_row)
              THEN [r EXCEPT !.value = new_row.value]
              ELSE r : r \in @}
        ELSE @ \cup {new_row}]

\* ------------------------------------------------------- the fetch functions
\* The pipelines of connexion_db.py, each named after its function. Indicator
\* lists longer than two codes are cut to their first two codes.
FetchPageKinds ==
    {"_fetch_who_data", "_fetch_world_bank_data", "_fetch_hiv_data",
     "_fetch_tuberculosis_data", "_fetch_malaria_data", "_fetch_immunization_data",
     "_fetch_health_systems_data"}

FetchPageSingleKinds ==
    {"_fetch_unicef_data", "_fetch_weight_data", "_fetch_drink_safe_data",
     "_fetch_drink_data", "_fetch_birth_data"}

\* source_dataset= of the FetchPage / FetchPageSingle constructor call.
SourceDataset(kind) ==
    CASE kind = "_fetch_world_bank_data" -> "world-bank-health-indicators"
      [] kind = "_fetch_health_systems_data" -> "world-bank-health-indicators"
      [] kind = "_fetch_unicef_data" -> "unicef-mnch-mmr"
      [] kind = "_fetch_weight_data" -> "unicef-nt-ant-whz-po2"
      [] kind = "_fetch_drink_safe_data" -> "unicef-ws-ppl-w-sm"
      [] kind = "_fetch_drink_data" -> "unicef-ws-ppl-w-b"
      [] kind = "_fetch_birth_data" -> "unicef-nt-bw-lbw"
      [] OTHER -> "who-data"

\* dataset_index= of the constructor call: 0, or None when the resource is chosen by title.
DatasetIndexArg(kind) ==
    IF kind \in {"_fetch_hiv_data", "_fetch_tuberculosis_data", "_fetch_malaria_data",
                 "_fetch_immunization_data"}
    THEN Nothing ELSE Some(IndexZero)

\* dataset_name= of the constructor call, or None.
DatasetNameArg(kind) ==
    CASE kind = "_fetch_hiv_data" -> "HIV Indicators"
      [] kind = "_fetch_tuberculosis_data" -> "Tuberculosis Indicators"
      [] kind = "_fetch_malaria_data" -> "Malaria Indicators"
      [] kind = "_fetch_immunization_data" ->
             "Immunization coverage and vaccine-preventable diseases Indicators"
      [] OTHER -> None

\* indicators= (FetchPage) or <<indicator>> (FetchPageSingle) of the add_indicator_to_db call.
IndicatorsArg(kind) ==
    CASE kind = "_fetch_who_data" -> << "WHOSIS_000001", "WHOSIS_000002" >>
      [] kind = "_fetch_world_bank_data" -> << "SH.DYN.MORT", "SH.DYN.MORT.FE" >>
      [] kind = "_fetch_unicef_data" -> << "MMR_100k" >>
      [] kind = "_fetch_hiv_data" -> << "HIV_0000000001" >>
      [] kind = "_fetch_tuberculosis_data" -> << "MDG_0000000020" >>
      [] kind = "_fetch_malaria_data" -> << "MALARIA_EST_INCIDENCE" >>
      [] kind = "_fetch_immunization_data" -> << "WHS3_62", "WHS3_41" >>
      [] kind = "_fetch_weight_data" -> << "NT_ANT_WHZ_PO2" >>
      [] kind = "_fetch_drink_safe_data" -> << "WS_PPL_W-PRE" >>
      [] kind = "_fetch_drink_data" -> << "WS_PPL_W-B" >>
      [] kind = "_fetch_birth_data" -> << "NT_BW_LBW" >>
      [] OTHER -> << "SH.UHC.SRVS.CV.XD", "SH.MED.BEDS.ZS" >>

\* column_sexe= is passed only for the who-data tables ("DIMENSION (NAME)").
HasColumnSexe(kind) == SourceDataset(kind) = "who-data"

\* "if dataset.datasets_list is None: raise ValueError" after the constructor.
ChecksNone(kind) ==
    kind \in {"_fetch_who_data", "_fetch_world_bank_data", "_fetch_health_systems_data"}

\* The exception types the function's own try/except catches.
Catches(kind) ==
    IF kind = "_fetch_health_systems_data" THEN {} ELSE {"AttributeError", "ValueError"}

\* ------------------------------------------------------ the remote provider
\* What the provider serves: the shape of a listing page, the letter case and the
\* completeness of the tables, and the one failure a behaviour may be run under.
ListingShapes == {"ok", "first_malformed", "all_malformed", "no_resource_list"}
TableVariants == {"plain", "both_cases", "lower_case", "gap", "bad_row"}
Failures ==
    {"none", "listing_unreachable", "download_fails", "values_db_error", "values_key_error"}
\* The resources a failure hits: those of country dza and the single documents.
FailureHits(owner) == owner \in {"dza", "single"}

\* The provider at the start: day 1, revision 1, and at most one irregularity; a
\* value step is also made to fail over a table that holds both letter cases.
Environments ==
    {e \in [today : {1}, pub : {1}, shape : ListingShapes, variant : TableVariants,
            failure : Failures] :
        \/ e.shape = "ok" /\ e.variant = "plain"
        \/ e.shape = "ok" /\ e.failure = "none"
        \/ e.variant = "plain" /\ e.failure = "none"
        \/ /\ e.shape = "ok" /\ e.variant = "both_cases"
           /\ e.failure \in {"values_db_error", "values_key_error"}}

\* Titles of the resources of a listing page, in provider order.
ListingTitles(source) ==
    IF source = "who-data"
    THEN << "All Health Indicators", "HIV Indicators", "Tuberculosis Indicators",
            "Malaria Indicators",
            "Immunization coverage and vaccine-preventable diseases Indicators" >>
    ELSE << "Data", "Metadata" >>

\* The resource items of a listing page: title, publication date, and whether the
\* item parses (a malformed item raises AttributeError or ValueError in the loop).
ListingItems(source, shape, pubDate) ==
    [k \in 1..Len(ListingTitles(source)) |->
        [title |-> ListingTitles(source)[k],
         update_date |-> pubDate,
         parses |-> CASE shape = "all_malformed" -> FALSE
                      [] shape = "first_malformed" -> k # 1
                      [] OTHER -> TRUE]]

\* The indicator codes a table of the resource carries.
CodesOfResource(source, title) ==
    CASE source = "who-data" /\ title = "All Health Indicators" ->
             << "WHOSIS_000001", "WHOSIS_000002" >>
      [] source = "who-data" /\ title = "HIV Indicators" -> << "HIV_0000000001" >>
      [] source = "who-data" /\ title = "Tuberculosis Indicators" -> << "MDG_0000000020" >>
      [] source = "who-data" /\ title = "Malaria Indicators" -> << "MALARIA_EST_INCIDENCE" >>
      [] source = "who-data" -> << "WHS3_62", "WHS3_41" >>
      [] source = "world-bank-health-indicators" ->
             << "SH.DYN.MORT", "SH.DYN.MORT.FE", "SH.UHC.SRVS.CV.XD", "SH.MED.BEDS.ZS" >>
      [] source = "unicef-mnch-mmr" -> << "MMR_100k" >>
      [] source = "unicef-nt-ant-whz-po2" -> << "NT_ANT_WHZ_PO2" >>
      [] source = "unicef-ws-ppl-w-sm" -> << "WS_PPL_W-PRE" >>
      [] source = "unicef-ws-ppl-w-b" -> << "WS_PPL_W-B" >>
      [] OTHER -> << "NT_BW_LBW" >>

IsSingleSource(source) ==
    source \notin {"who-data", "world-bank-health-indicators"}

\* The rows of one indicator code for one area: two observations. The values follow
\* the revision of the resource, so a republished table carries new values. Under
\* variant "bad_row" the date of the first observation is not a year (it carries
\* trailing text), so it cannot be coerced to the type of its column.
RowsOfCode(area, code, pubDate, sexe, variant) ==
    << [area |-> area, code |-> code, fullname |-> "name of indicator",
        year |-> 2020, value |-> pubDate, sexe |-> sexe, coercible |-> variant # "bad_row"],
       [area |-> area, code |-> code, fullname |-> "name of indicator",
        year |-> 2021, value |-> pubDate + 1, sexe |-> sexe, coercible |-> TRUE] >>

RECURSIVE ConcatAll(_)
ConcatAll(seqs) == IF seqs = << >> THEN << >> ELSE Head(seqs) \o ConcatAll(Tail(seqs))

\* The areas (REF_AREA) of the rows of a single-document table; under variant
\* "gap" the table has no row of the first area.
AreasOfTable(variant) ==
    CASE variant \in {"both_cases", "bad_row"} -> << "FRA", "fra", "DZA", "dza" >>
      [] variant = "lower_case" -> << "fra", "dza" >>
      [] variant = "gap" -> << "DZA", "dza" >>
      [] OTHER -> << "FRA", "DZA" >>

\* The CSV of a resource: a per-country table carries the codes of its topic (less
\* the first one under variant "gap"), a single document one code for every area.
TableOf(source, title, owner, variant, pubDate) ==
    LET codes == CodesOfResource(source, title)
        kept == IF variant = "gap" /\ ~IsSingleSource(source) THEN Tail(codes) ELSE codes
        sexe == IF source = "who-data" THEN "Both sexes" ELSE "all"
    IN IF IsSingleSource(source)
       THEN ConcatAll([a \in 1..Len(AreasOfTable(variant)) |->
                ConcatAll([c \in 1..Len(kept) |->
                    RowsOfCode(AreasOfTable(variant)[a], kept[c], pubDate, sexe, variant)])])
       ELSE ConcatAll([c \in 1..Len(kept) |->
                RowsOfCode(Upper(owner), kept[c], pubDate, sexe, variant)])

\* ------------------------------------------------- values that may be raised
\* The outcome of a call: the value it returns, or the exception it raises.
Ret(v) == [exc |-> NoExc, val |-> v]
Raise(e) == [exc |-> e, val |-> None]

\* A pandas DataFrame: whether it has (named) columns, and its rows in order.
\* pd.DataFrame() has neither; NoFrame is None where a DataFrame is expected.
Frame(rows) == [isNone |-> FALSE, columns |-> TRUE, rows |-> rows]
EmptyFrame == [isNone |-> FALSE, columns |-> FALSE, rows |-> << >>]
NoFrame == [isNone |-> TRUE, columns |-> FALSE, rows |-> << >>]

RECURSIVE SelectRows(_, _, _)
\* The rows r of a sequence with r[field] = v, in order.
SelectRows(rows, field, v) ==
    IF rows = << >> THEN << >>
    ELSE (IF Head(rows)[field] = v THEN << Head(rows) >> ELSE << >>)
         \o SelectRows(Tail(rows), field, v)

\* The catalog rows of the items of a listing that parse, in listing order.
RECURSIVE ParsedItems(_)
ParsedItems(items) ==
    IF items = << >> THEN << >>
    ELSE (IF Head(items).parses
          THEN << [title |-> Head(items).title, update_date |-> Head(items).update_date] >>
          ELSE << >>)
         \o ParsedItems(Tail(items))

\* requests.get(datasets_url) raises RequestException: the failure of the run hits
\* the page, or the provider has no page for the country.
ListingUnreachable(owner, env) ==
    \/ env.failure = "listing_unreachable" /\ FailureHits(owner)
    \/ owner # "single" /\ GetCountryName(owner) = None

\* FetchPage.__init__ with the code kept in the letter case it was passed in.
IdCountryAsPassed(country_id) == country_id

\* FetchPage.__init__: self.id_country = country_id.lower()
IdCountry(country_id) == Lower(country_id)

\* FetchPage._get_datasets_list
GetDatasetsListPage(source, id_country, country, env) ==
    IF source = "world-bank-health-indicators" /\ country = None
    THEN Raise("AttributeError")
    ELSE IF ListingUnreachable(id_country, env) THEN Ret(NoFrame)
    ELSE IF env.shape = "no_resource_list" THEN Raise("AttributeError")
    ELSE Ret(Frame(ParsedItems(ListingItems(source, env.shape, env.pub))))

\* FetchPageSingle._get_datasets_list: the loop returns after the first item that
\* parses; when no item parses, its else branch indexes the empty frame.
GetDatasetsListSingle(source, dataset_index, env) ==
    IF ListingUnreachable("single", env) THEN Ret(EmptyFrame)
    ELSE IF env.shape = "no_resource_list" THEN Raise("AttributeError")
    ELSE IF dataset_index = Nothing THEN Ret(NoFrame)
    ELSE LET parsed == ParsedItems(ListingItems(source, env.shape, env.pub))
         IN IF parsed = << >> THEN Raise("IndexError") ELSE Ret(Frame(<< Head(parsed) >>))

\* self.datasets_list["update_date"][self.dataset_index]
UpdateDateAt(datasets_list, dataset_index) ==
    IF datasets_list.isNone THEN Raise("TypeError")
    ELSE IF ~datasets_list.columns THEN Raise("KeyError")
    ELSE IF dataset_index = Nothing THEN Raise("KeyError")
    ELSE IF dataset_index[1] + 1 > Len(datasets_list.rows) THEN Raise("KeyError")
    ELSE Ret(datasets_list.rows[dataset_index[1] + 1].update_date)

\* The comparison of the check made non-strict: an equal date counts as older.
StoredIsOlderOrEqual(result, update_date) == ResultAt(result, 4) <= update_date

\* result[4] < self.datasets_list["update_date"][self.dataset_index]
StoredIsOlder(result, update_date) == ResultAt(result, 4) < update_date

RECURSIVE CheckLoop(_, _, _, _, _)
\* The loop of _check_update_date over the (indicator, country) pairs asked for:
\* the positions of the pairs to update, or the exception the loop raises.
CheckLoop(st, pairs, datasets_list, dataset_index, k) ==
    IF k > Len(pairs) THEN Ret(<< >>)
    ELSE LET result == SelectIndicator(st, pairs[k][1], pairs[k][2])
             rest == CheckLoop(st, pairs, datasets_list, dataset_index, k + 1)
             date == UpdateDateAt(datasets_list, dataset_index)
         IN IF result = Nothing
            THEN (IF rest.exc # NoExc THEN rest ELSE Ret(<< k >> \o rest.val))
            ELSE IF date.exc # NoExc THEN date
            ELSE IF StoredIsOlder(result, date.val)
                 THEN (IF rest.exc # NoExc THEN rest ELSE Ret(<< k >> \o rest.val))
                 ELSE rest

\* FetchPage._check_update_date(list_indicators)
CheckUpdateDatePage(st, list_indicators, id_country, datasets_list, dataset_index) ==
    LET pairs == [k \in 1..Len(list_indicators) |-> << list_indicators[k], id_country >>]
        r == CheckLoop(st, pairs, datasets_list, dataset_index, 1)
    IN IF r.exc # NoExc THEN r
       ELSE Ret([j \in 1..Len(r.val) |-> list_indicators[r.val[j]]])

\* FetchPageSingle._check_update_date(indicator, id_countries)
CheckUpdateDateSingle(st, indicator, id_countries, datasets_list, dataset_index) ==
    LET pairs == [k \in 1..Len(id_countries) |-> << indicator, id_countries[k] >>]
        r == CheckLoop(st, pairs, datasets_list, dataset_index, 1)
    IN IF r.exc # NoExc THEN r
       ELSE Ret([j \in 1..Len(r.val) |-> id_countries[r.val[j]]])

\* The loop of FetchPage.add_indicator_to_db that sets dataset_index from dataset_name
\* ("dataset_name.lower() in row['title'].lower()"): the first title that holds it.
SelectByTitle(datasets_list, dataset_name, dataset_index) ==
    IF dataset_name = None THEN Ret(dataset_index)
    ELSE IF datasets_list.isNone THEN Raise("AttributeError")
    ELSE LET hits == {k \in 1..Len(datasets_list.rows) :
                         datasets_list.rows[k].title = dataset_name}
         IN IF hits = {} THEN Ret(dataset_index)
            ELSE Ret(Some((CHOOSE k \in hits : \A j \in hits : k <= j) - 1))

\* A download whose failure goes unnoticed: the table is served all the same.
ReadCsvNeverFails(source, owner, datasets_list, dataset_index, env) ==
    IF datasets_list.isNone THEN Raise("AttributeError")
    ELSE IF dataset_index = Nothing THEN Raise("TypeError")
    ELSE IF dataset_index[1] + 1 > Len(datasets_list.rows) THEN Raise("IndexError")
    ELSE Ret(Frame(TableOf(source, datasets_list.rows[dataset_index[1] + 1].title,
                           owner, env.variant, env.pub)))

\* Fetch._read_csv_from_list: the row of the catalog, then the download; every
\* failure of the download collapses to pd.DataFrame().
ReadCsvFromList(source, owner, datasets_list, dataset_index, env) ==
    IF datasets_list.isNone THEN Raise("AttributeError")
    ELSE IF dataset_index = Nothing THEN Raise("TypeError")
    ELSE IF dataset_index[1] + 1 > Len(datasets_list.rows) THEN Raise("IndexError")
    ELSE IF env.failure = "download_fails" /\ FailureHits(owner) THEN Ret(EmptyFrame)
    ELSE Ret(Frame(TableOf(source, datasets_list.rows[dataset_index[1] + 1].title,
                           owner, env.variant, env.pub)))

\* --------------------------------------------------------------- extraction
RECURSIVE KeepPresent(_, _, _)
\* The elements x of a list for which the table has a row with row[field] = x, in order.
KeepPresent(list, rows, field) ==
    IF list = << >> THEN << >>
    ELSE (IF \E k \in 1..Len(rows) : rows[k][field] = Head(list)
          THEN << Head(list) >> ELSE << >>)
         \o KeepPresent(Tail(list), rows, field)

\* FetchPage.add_indicator_to_db, from "check if indicator is in the dataset" to the
\* construction of Indicators: the indicators kept and, for each, its rows.
ExtractPage(dataset, list_indicators_to_update) ==
    IF ~dataset.columns THEN Raise("KeyError")
    ELSE LET kept == KeepPresent(list_indicators_to_update, dataset.rows, "code")
         IN Ret([groups |-> kept,
                 names |-> << >>,
                 data |-> [k \in 1..Len(kept) |-> SelectRows(dataset.rows, "code", kept[k])]])

\* FetchPageSingle.add_indicator_to_db, from "check if contry id ... is in the dataset"
\* to the construction of Indicator: a country is kept when the table holds its code
\* as passed (lowercase), and its rows are those of the uppercase code.
ExtractSingle(dataset, id_countries_to_update, countries_names_to_update) ==
    IF ~dataset.columns THEN Raise("KeyError")
    ELSE LET kept == KeepPresent(id_countries_to_update, dataset.rows, "area")
         IN Ret([groups |-> kept,
                 names |-> countries_names_to_update,
                 data |-> [k \in 1..Len(kept) |->
                              SelectRows(dataset.rows, "area", Upper(kept[k]))]])

RECURSIVE RemoveFirst(_, _)
\* list.remove(x)
RemoveFirst(list, x) ==
    IF list = << >> THEN << >>
    ELSE IF Head(list) = x THEN Tail(list)
    ELSE << Head(list) >> \o RemoveFirst(Tail(list), x)

RECURSIVE NameLoop(_, _, _, _)
\* The for loop of _get_name_country: it walks the list by position while its else
\* branch removes the current element from that same list.
NameLoop(id_countries, i, name_countries, not_countries) ==
    IF i > Len(id_countries)
    THEN [names |-> name_countries, not_countries |-> not_countries, ids |-> id_countries]
    ELSE IF GetCountryName(id_countries[i]) # None
         THEN NameLoop(id_countries, i + 1,
                       Append(name_countries, GetCountryName(id_countries[i])), not_countries)
         ELSE NameLoop(RemoveFirst(id_countries, id_countries[i]), i + 1,
                       name_countries, Append(not_countries, id_countries[i]))

\* FetchPageSingle._get_name_country
GetNameCountry(id_countries) == NameLoop(id_countries, 1, << >>, << >>)

\* ------------------------------------------------------------------ upserts
\* The value step of the group is made to fail at its last row.
ValueStepFails(env, country_id, k, n) ==
    /\ env.failure \in {"values_db_error", "values_key_error"}
    /\ FailureHits(country_id)
    /\ k = n

ValueStepError(env) ==
    IF env.failure = "values_key_error" THEN "KeyError" ELSE "DBAPIError"

\* IndicatorBase._add_row_indicator: name_indicator is df[column_fullname].iloc[0].
AddRowIndicator(ws, df, indicator, country_id, prov) ==
    IF df = << >> THEN Raise("KeyError")
    ELSE Ret(UpsertIndicator(ws,
                [id_indicator |-> indicator, id_country |-> country_id,
                 name_indicator |-> df[1].fullname, source |-> prov.source,
                 download |-> prov.download, update |-> prov.update]))

\* Timed_Indicators holds a year and a numeric value: the database refuses a row
\* whose date or value cannot be coerced to the type of its column.
ColumnsReject(row) == ~row.coercible

RECURSIVE ValuesLoop(_, _, _, _, _, _, _)
\* IndicatorBase._add_indicator_values, from row k on: every row of df is sent as
\* it is, and connection.execute raises what the database raises.
ValuesLoop(ws, df, k, indicator, country_id, column_sexe, env) ==
    IF k > Len(df) THEN Ret(ws)
    ELSE IF ColumnsReject(df[k]) THEN [exc |-> "DataError", val |-> ws]
    ELSE IF ValueStepFails(env, country_id, k, Len(df))
         THEN [exc |-> ValueStepError(env), val |-> ws]
         ELSE ValuesLoop(UpsertTimed(ws,
                            [id_indicator |-> indicator, id_country |-> country_id,
                             year_recorded |-> df[k].year, value |-> df[k].value,
                             sexe |-> IF column_sexe THEN df[k].sexe ELSE "all"]),
                         df, k + 1, indicator, country_id, column_sexe, env)

AddIndicatorValues(ws, df, indicator, country_id, column_sexe, env) ==
    ValuesLoop(ws, df, 1, indicator, country_id, column_sexe, env)

\* id_country is the primary key of Country: a second row of a code is refused.
CountryKeyTaken(committed, country_id) == SelectCountry(committed, country_id) # Nothing

\* _add_row_country as an upsert of the display name: the row of a stored code is
\* written again, under the name of its code.
AddRowCountryRenames(ws, committed, seen, country_id, country_name) ==
    Ret(InsertCountry(ws, [id_country |-> country_id,
                           country_name |-> IF seen = Nothing /\ ~CountryKeyTaken(committed, country_id)
                                            THEN country_name ELSE country_id]))

\* IndicatorBase._add_row_country after its select returned `seen`: a plain INSERT
\* when no row was seen; the INSERT violates the primary key when a row of the
\* code was committed in the meantime.
AddRowCountry(ws, committed, seen, country_id, country_name) ==
    IF seen # Nothing THEN Ret(ws)
    ELSE IF CountryKeyTaken(committed, country_id) THEN Raise("IntegrityError")
    ELSE Ret(InsertCountry(ws, [id_country |-> country_id, country_name |-> country_name]))

RECURSIVE IndicatorsLoop(_, _, _, _, _, _, _)
\* The for loop of Indicators.send_data_to_db, from indicator k on: nothing is caught.
IndicatorsLoop(ws, groups, data, k, id_country, column_sexe, ctx) ==
    IF k > Len(groups) THEN Ret(ws)
    ELSE LET meta == AddRowIndicator(ws, data[k], groups[k], id_country, ctx.prov)
         IN IF meta.exc # NoExc THEN meta
            ELSE LET vals == AddIndicatorValues(meta.val, data[k], groups[k], id_country,
                                                column_sexe, ctx.env)
                 IN IF vals.exc # NoExc THEN vals
                    ELSE IndicatorsLoop(vals.val, groups, data, k + 1, id_country,
                                        column_sexe, ctx)

\* Indicators.send_data_to_db after the select of _add_row_country.
SendDataIndicators(ws, committed, seen, groups, data, id_country, country, column_sexe, ctx) ==
    LET c == AddRowCountry(ws, committed, seen, id_country, country)
    IN IF c.exc # NoExc THEN c
       ELSE IndicatorsLoop(c.val, groups, data, 1, id_country, column_sexe, ctx)

\* The exceptions the try of Indicator.send_data_to_db catches.
IndicatorCatches == {"KeyError"}

\* One turn of the loop of Indicator.send_data_to_db, for country k of
\* list_countries_id, after the select of _add_row_country: a KeyError of the three
\* steps is caught, and what the steps before it wrote stays in the transaction.
SendDataIndicatorTurn(ws, committed, seen, groups, names, data, k, indicator, ctx) ==
    LET country_id == Lower(groups[k])
        c == IF k > Len(names) THEN Raise("IndexError")
             ELSE AddRowCountry(ws, committed, seen, country_id, names[k])
        meta == AddRowIndicator(c.val, data[k], indicator, country_id, ctx.prov)
        vals == AddIndicatorValues(meta.val, data[k], indicator, country_id, FALSE, ctx.env)
        swallow(r, before) == IF r.exc \in IndicatorCatches THEN Ret(before) ELSE r
    IN IF c.exc # NoExc THEN c
       ELSE IF meta.exc # NoExc THEN swallow(meta, c.val)
       ELSE IF vals.exc # NoExc THEN swallow(vals, vals.val)
       ELSE vals

\* The commit of "with engine.begin()": every row the transaction wrote reaches the
\* committed tables through the statement that wrote it.
RECURSIVE CommitRows(_, _)
CommitRows(committed, ws) ==
    IF ws.country # {}
    THEN LET r == CHOOSE r \in ws.country : TRUE
         IN CommitRows(InsertCountry(committed, r), [ws EXCEPT !.country = @ \ {r}])
    ELSE IF ws.indicator # {}
    THEN LET r == CHOOSE r \in ws.indicator : TRUE
         IN CommitRows(UpsertIndicator(committed, r), [ws EXCEPT !.indicator = @ \ {r}])
    ELSE IF ws.timed # {}
    THEN LET r == CHOOSE r \in ws.timed : TRUE
         IN CommitRows(UpsertTimed(committed, r), [ws EXCEPT !.timed = @ \ {r}])
    ELSE committed

\* -------------------------------------------------------------------- state
VARIABLES
    store,   \* the committed rows of Country, Indicator and Timed_Indicators
    env,     \* the provider and the calendar: today, pub, shape, variant, failure
    call,    \* the refresh call in progress: category, countries, phase, result
    tasks,   \* the pipelines of the call, in submission order
    hist     \* one record per returned call: what was asked, and the store it left

vars == << store, env, call, tasks, hist >>

Categories == {"health_status", "services_coverages", "risk_factors", "health_systems"}

\* The provenance fields of IndicatorBase before they are set.
NoProvenance == [source |-> None, download |-> 0, update |-> 0]

\* A pipeline before its function has started. The last seven fields record what
\* the pipeline met: whether its staleness check ran over a selected catalog entry,
\* what the check returned and the pairs that were due, the pairs that were fresh,
\* the pairs whose value step raised after their metadata step, the steps the
\* pipeline has started, in the order in which its code starts them, and the list
\* its staleness check returned, whatever catalog it ran over.
NewTask(kind, arg, inline) ==
    [kind |-> kind, arg |-> arg, inline |-> inline, pc |-> "queued", exc |-> NoExc,
     end |-> None, downloaded |-> FALSE, id_country |-> None, country |-> None,
     datasets_list |-> NoFrame, dataset_index |-> Nothing, stale |-> << >>,
     groups |-> << >>, names |-> << >>, data |-> << >>, gi |-> 0, seen |-> Nothing,
     ws |-> EmptyStore, prov |-> NoProvenance,
     checked |-> FALSE, verdict |-> [exc |-> NoExc, val |-> << >>], expected |-> << >>,
     fresh |-> {}, failed |-> {}, trace |-> << >>, returned |-> << >>]

\* A pipeline whose function has returned or raised `exc` at stage `end`; an open
\* transaction is rolled back by leaving "with engine.begin()" on an exception.
Finish(t, exc, end) ==
    [NewTask(t.kind, t.arg, t.inline) EXCEPT
        !.pc = "done", !.exc = exc, !.end = end, !.downloaded = t.downloaded,
        !.checked = t.checked, !.verdict = t.verdict, !.expected = t.expected,
        !.fresh = t.fresh, !.failed = t.failed, !.trace = t.trace,
        !.returned = t.returned]

IsSingle(t) == t.kind \in FetchPageSingleKinds

\* The exception left the function: its try/except does not catch it.
Escaped(t) == t.pc = "done" /\ t.exc # NoExc /\ t.exc \notin Catches(t.kind)

\* The owner of the resources of a pipeline: its country, or "single".
Owner(t) == IF IsSingle(t) THEN "single" ELSE Lower(t.arg)

\* id_countries = [country.lower() for country in id_countries]
LoweredArg(t) == [k \in 1..Len(t.arg) |-> Lower(t.arg[k])]

\* The publication date of the catalog a pipeline holds (all entries of a listing
\* carry the date of the revision), or None when it holds no entry.
CatalogDate(datasets_list) ==
    IF datasets_list.rows # << >> THEN Some(datasets_list.rows[1].update_date) ELSE Nothing

\* The (indicator, country) pairs a pipeline is asked for.
RequestedPairs(t) ==
    IF IsSingle(t)
    THEN {<< IndicatorsArg(t.kind)[1], Lower(t.arg[k]) >> : k \in 1..Len(t.arg)}
    ELSE {<< IndicatorsArg(t.kind)[k], Lower(t.arg) >> : k \in 1..Len(IndicatorsArg(t.kind))}

\* The pairs whose stored update date is at or after the publication date.
FreshPairs(st, t) ==
    IF CatalogDate(t.datasets_list) = Nothing THEN {}
    ELSE {p \in RequestedPairs(t) :
             LET result == SelectIndicator(st, p[1], p[2])
             IN result # Nothing /\ result[1].update >= CatalogDate(t.datasets_list)[1]}

\* The catalog entry the pipeline refreshes from: the one at dataset_index, or the
\* first one whose title holds dataset_name.
SelectedEntry(t) ==
    IF DatasetNameArg(t.kind) = None THEN t.dataset_index
    ELSE IF t.datasets_list.isNone THEN Nothing
    ELSE SelectByTitle(t.datasets_list, DatasetNameArg(t.kind), Nothing).val

\* The requested pairs in request order, as the check names them: the indicator
\* codes of a per-country pipeline, the country codes of a single-document one.
RequestedNames(t) == IF IsSingle(t) THEN LoweredArg(t) ELSE IndicatorsArg(t.kind)

PairOfName(t, x) ==
    IF IsSingle(t) THEN << IndicatorsArg(t.kind)[1], x >> ELSE << x, t.id_country >>

\* The requested pairs with no metadata row, or whose stored update date is
\* strictly before the publication date of the selected entry.
DuePairs(st, t) ==
    LET date == UpdateDateAt(t.datasets_list, SelectedEntry(t)).val
        due(x) == LET result == SelectIndicator(st, PairOfName(t, x)[1], PairOfName(t, x)[2])
                  IN result = Nothing \/ result[1].update < date
    IN SelectSeq(RequestedNames(t), due)

\* The record of the staleness check of a pipeline that holds its catalog.
Checked(t, r) ==
    LET known == UpdateDateAt(t.datasets_list, SelectedEntry(t)).exc = NoExc
    IN [t EXCEPT !.checked = known,
                 !.verdict = IF known /\ r.exc = NoExc THEN r
                             ELSE [exc |-> r.exc, val |-> << >>],
                 !.expected = IF known THEN DuePairs(store, t) ELSE << >>,
                 !.fresh = FreshPairs(store, t)]

\* ------------------------------------------------------------ pipeline steps
\* The constructor call of the fetch function, and the None check after it.
ConstructStep(t0) ==
    LET t == [t0 EXCEPT !.trace = << "catalog" >>
                            \o (IF DatasetIndexArg(t0.kind) # Nothing THEN << "choice" >>
                                ELSE << >>)]
    IN
    IF IsSingle(t)
    THEN LET r == GetDatasetsListSingle(SourceDataset(t.kind), DatasetIndexArg(t.kind), env)
         IN IF r.exc # NoExc THEN Finish(t, r.exc, "catalog")
            ELSE [t EXCEPT !.pc = "check", !.datasets_list = r.val,
                           !.dataset_index = DatasetIndexArg(t.kind)]
    ELSE LET id == IdCountry(t.arg)
             r == GetDatasetsListPage(SourceDataset(t.kind), id, GetCountryName(id), env)
         IN IF r.exc # NoExc THEN Finish(t, r.exc, "catalog")
            ELSE IF ChecksNone(t.kind) /\ r.val.isNone THEN Finish(t, "ValueError", "catalog")
            ELSE [t EXCEPT !.pc = "check", !.id_country = id,
                           !.country = GetCountryName(id), !.datasets_list = r.val,
                           !.dataset_index = DatasetIndexArg(t.kind)]

\* add_indicator_to_db up to the download: the staleness check, then (FetchPage) the
\* choice of the resource by title, or (FetchPageSingle) the names of the countries.
CheckStep(t) ==
    IF IsSingle(t)
    THEN LET r == CheckUpdateDateSingle(store, IndicatorsArg(t.kind)[1], LoweredArg(t),
                                        t.datasets_list, t.dataset_index)
             nm == GetNameCountry(r.val)
             c == [Checked(t, r) EXCEPT !.trace = Append(@, "check"),
                                        !.returned = IF r.exc = NoExc THEN r.val ELSE << >>]
         IN IF r.exc # NoExc THEN Finish(c, r.exc, "check")
            ELSE IF r.val = << >> THEN Finish(c, NoExc, "up_to_date")
            ELSE IF nm.not_countries # << >> THEN Finish(c, NoExc, "not_countries")
            ELSE IF nm.names = << >> THEN Finish(c, NoExc, "not_countries")
            ELSE [c EXCEPT !.pc = "download", !.stale = nm.ids, !.names = nm.names]
    ELSE LET r == CheckUpdateDatePage(store, IndicatorsArg(t.kind), t.id_country,
                                      t.datasets_list, t.dataset_index)
             s == SelectByTitle(t.datasets_list, DatasetNameArg(t.kind), t.dataset_index)
             c == [Checked(t, r) EXCEPT
                      !.returned = IF r.exc = NoExc THEN r.val ELSE << >>,
                      !.trace = Append(@, "check")
                                \o (IF r.exc = NoExc /\ DatasetNameArg(t.kind) # None
                                    THEN << "choice" >> ELSE << >>)]
         IN IF r.exc # NoExc THEN Finish(c, r.exc, "check")
            ELSE IF s.exc # NoExc THEN Finish(c, s.exc, "check")
            ELSE IF r.val = << >> THEN Finish(c, NoExc, "up_to_date")
            ELSE [c EXCEPT !.pc = "download", !.stale = r.val, !.dataset_index = s.val]

\* _read_csv_from_list and the extraction of the rows of the pairs to update.
DownloadStep(t0) ==
    LET t == [t0 EXCEPT !.trace = Append(@, "download")]
        r == ReadCsvFromList(SourceDataset(t.kind), Owner(t), t.datasets_list,
                             t.dataset_index, env)
        x == IF IsSingle(t) THEN ExtractSingle(r.val, t.stale, t.names)
             ELSE ExtractPage(r.val, t.stale)
        d == UpdateDateAt(t.datasets_list, t.dataset_index)
        got == [t EXCEPT !.downloaded = TRUE, !.trace = Append(@, "extract")]
    IN IF r.exc # NoExc THEN Finish(t, r.exc, "download")
       ELSE IF x.exc # NoExc
            THEN Finish(got, x.exc, IF r.val = EmptyFrame THEN "download_failed" ELSE "extract")
       ELSE IF IsSingle(t) /\ x.val.groups = << >> THEN Finish(got, NoExc, "absent")
       ELSE IF d.exc # NoExc THEN Finish(got, d.exc, "extract")
       ELSE [got EXCEPT !.pc = "select", !.groups = x.val.groups, !.names = x.val.names,
                        !.data = x.val.data, !.gi = 1,
                        !.prov = [source |-> SourceDataset(t.kind),
                                  download |-> env.today, update |-> d.val]]

\* The code of the Country row the transaction is about to look up.
CountryAt(t) == IF IsSingle(t) THEN Lower(t.groups[t.gi]) ELSE t.id_country

\* The rows a statement of the transaction sees: the committed ones and its own.
Visible(t) ==
    [country |-> store.country \cup t.ws.country,
     indicator |-> store.indicator \cup t.ws.indicator,
     timed |-> store.timed \cup t.ws.timed]

\* The select of _add_row_country (FetchPage: after engine.begin()).
SelectStep(t) ==
    [t EXCEPT !.pc = "write", !.seen = SelectCountry(Visible(t), CountryAt(t))]

\* The INSERT of the Country row waits while another open transaction holds an
\* uncommitted row of the same code.
InsertBlocked(i) ==
    /\ tasks[i].seen = Nothing
    /\ \E j \in 1..Len(tasks) :
          /\ j # i
          /\ \E r \in tasks[j].ws.country : r.id_country = CountryAt(tasks[i])

\* The pair whose value step raises in the statements WriteStep runs, after its
\* metadata step succeeded (none when an earlier statement raises).
ValueStepRaised(t) ==
    LET country_id == CountryAt(t)
        k == IF IsSingle(t) THEN t.gi ELSE 1
        c == AddRowCountry(t.ws, store, t.seen, country_id, "name")
    IN IF /\ c.exc = NoExc
          /\ IsSingle(t) => k <= Len(t.names)
          /\ k <= Len(t.data)
          /\ t.data[k] # << >>
          /\ \/ ValueStepFails(env, country_id, Len(t.data[k]), Len(t.data[k]))
             \/ \E j \in 1..Len(t.data[k]) : ColumnsReject(t.data[k][j])
       THEN {<< IF IsSingle(t) THEN IndicatorsArg(t.kind)[1] ELSE t.groups[k], country_id >>}
       ELSE {}

\* send_data_to_db after the select: for Indicators the insert of the country and
\* every group; for Indicator the turn of the loop for country gi.
WriteStep(t) ==
    LET ctx == [prov |-> t.prov, env |-> env]
        r == IF IsSingle(t)
             THEN SendDataIndicatorTurn(t.ws, store, t.seen, t.groups, t.names, t.data,
                                        t.gi, IndicatorsArg(t.kind)[1], ctx)
             ELSE SendDataIndicators(t.ws, store, t.seen, t.groups, t.data, t.id_country,
                                     t.country, HasColumnSexe(t.kind), ctx)
        f == [t EXCEPT !.failed = @ \cup ValueStepRaised(t),
                       !.trace = IF @[Len(@)] = "upsert" THEN @ ELSE Append(@, "upsert")]
    IN IF r.exc # NoExc THEN Finish(f, r.exc, "upsert")
       ELSE IF IsSingle(t) /\ t.gi < Len(t.groups)
            THEN [f EXCEPT !.pc = "select", !.ws = r.val, !.gi = t.gi + 1, !.seen = Nothing]
       ELSE [f EXCEPT !.pc = "commit", !.ws = r.val, !.seen = Nothing]

\* ------------------------------------------------------- the refresh calls
\* The fetch functions a refresh call submits to its pool for one country.
PerCountryKinds(category) ==
    CASE category = "health_status" -> << "_fetch_who_data", "_fetch_world_bank_data" >>
      [] category = "services_coverages" ->
             << "_fetch_hiv_data", "_fetch_tuberculosis_data", "_fetch_malaria_data",
                "_fetch_immunization_data" >>
      [] category = "health_systems" -> << "_fetch_health_systems_data" >>
      [] OTHER -> << >>

\* The fetch functions update_list_risk_factors submits, each with the whole list.
RiskFactorKinds ==
    << "_fetch_weight_data", "_fetch_drink_safe_data", "_fetch_drink_data", "_fetch_birth_data" >>

\* id_countries=[country.upper() for country in country_list]
UpperList(country_list) == [k \in 1..Len(country_list) |-> Upper(country_list[k])]

\* Every pipeline submitted once per country, the risk-factor ones too.
SubmittedPerCountry(category, country_list) ==
    ConcatAll([c \in 1..Len(country_list) |->
        IF category = "risk_factors"
        THEN [k \in 1..Len(RiskFactorKinds) |->
                 NewTask(RiskFactorKinds[k], UpperList(<< country_list[c] >>), FALSE)]
        ELSE [k \in 1..Len(PerCountryKinds(category)) |->
                 NewTask(PerCountryKinds(category)[k], country_list[c], FALSE)]])

\* The tasks of a refresh call in the order of their executor.submit / executor.map.
SubmittedTasks(category, country_list) ==
    IF category = "risk_factors"
    THEN [k \in 1..Len(RiskFactorKinds) |->
             NewTask(RiskFactorKinds[k], UpperList(country_list), FALSE)]
    ELSE ConcatAll([c \in 1..Len(country_list) |->
             [k \in 1..Len(PerCountryKinds(category)) |->
                 NewTask(PerCountryKinds(category)[k], country_list[c], FALSE)]])

\* max_workers of the pool of the call.
MaxWorkers(category) ==
    CASE category = "health_status" -> WorkersHealthStatus
      [] category = "services_coverages" -> WorkersCoverage
      [] category = "risk_factors" -> WorkersRiskFactors
      [] OTHER -> WorkersHealthSystems

PoolTasks == {i \in 1..Len(tasks) : ~tasks[i].inline}
AllPoolDone == \A i \in PoolTasks : tasks[i].pc = "done"
Running == {i \in PoolTasks : tasks[i].pc \notin {"queued", "done"}}

\* A queued task starts when a worker is free and every task submitted before it
\* has started; the pipeline run in the caller's thread starts at once.
MayStart(i) ==
    \/ tasks[i].inline
    \/ /\ Cardinality(Running) < MaxWorkers(call.category)
       /\ \A j \in PoolTasks : j < i => tasks[j].pc # "queued"

Init ==
    /\ store = EmptyStore
    /\ env \in Environments
    /\ call = [category |-> None, countries |-> << >>, phase |-> "idle",
               timedOut |-> FALSE, result |-> None, n |-> 0, before |-> EmptyStore]
    /\ tasks = << >>
    /\ hist = << >>

\* The longest country list explored for a category.
MaxCountriesOf(category) ==
    IF category = "services_coverages" THEN MaxCoverageCountries ELSE MaxCountries

\* update_list_*(country_list) is called: the tasks are submitted; the call then
\* sits in concurrent.futures.wait(futures, timeout=30), or (health systems, which
\* uses executor.map and no wait) at the end of its with block.
Call(category, country_list) ==
    /\ call.phase \in {"idle", "returned"}
    /\ call.n < MaxCalls
    /\ Len(country_list) <= MaxCountriesOf(category)
    /\ call.n > 0 => category = call.category /\ country_list = call.countries
    /\ call' = [category |-> category, countries |-> country_list,
                phase |-> IF category = "health_systems" THEN "joining" ELSE "waiting",
                timedOut |-> FALSE, result |-> None, n |-> call.n + 1, before |-> store]
    /\ tasks' = SubmittedTasks(category, country_list)
    /\ UNCHANGED << store, env, hist >>

TaskActive(i) ==
    /\ i \in 1..Len(tasks)
    /\ \/ ~tasks[i].inline /\ call.phase \in {"waiting", "joining"}
       \/ tasks[i].inline /\ call.phase = "inline"

\* The fetch function of a task from its start to the transaction: the constructor
\* (catalog), the staleness check against the committed store, the download and
\* the extraction. The provider does not change while a call runs, so the store
\* read of the check is the one point where other tasks are observed.
FetchStep(t) ==
    LET c == ConstructStep(t)
        k == CheckStep(c)
    IN IF c.pc = "done" THEN c
       ELSE IF k.pc = "done" THEN k
       ELSE DownloadStep(k)

Fetch(i) ==
    /\ TaskActive(i)
    /\ tasks[i].pc = "queued"
    /\ MayStart(i)
    /\ tasks' = [tasks EXCEPT ![i] = FetchStep(tasks[i])]
    /\ UNCHANGED << store, env, call, hist >>

Select(i) ==
    /\ TaskActive(i)
    /\ tasks[i].pc = "select"
    /\ tasks' = [tasks EXCEPT ![i] = SelectStep(tasks[i])]
    /\ UNCHANGED << store, env, call, hist >>

\* The statements after the select; when they were the last of send_data_to_db,
\* leaving "with engine.begin()" without an exception commits the transaction.
Write(i) ==
    /\ TaskActive(i)
    /\ tasks[i].pc = "write"
    /\ ~InsertBlocked(i)
    /\ LET w == WriteStep(tasks[i])
       IN IF w.pc = "commit"
          THEN /\ store' = CommitRows(store, w.ws)
               /\ tasks' = [tasks EXCEPT ![i] = Finish(w, NoExc, "committed")]
          ELSE /\ store' = store
               /\ tasks' = [tasks EXCEPT ![i] = w]
    /\ UNCHANGED << env, call, hist >>

\* concurrent.futures.wait returns because every future is done.
WaitAllDone ==
    /\ call.phase = "waiting"
    /\ AllPoolDone
    /\ call' = [call EXCEPT !.phase = "joining"]
    /\ UNCHANGED << store, env, tasks, hist >>

\* concurrent.futures.wait returns because its timeout elapsed.
WaitTimesOut ==
    /\ call.phase = "waiting"
    /\ ~AllPoolDone
    /\ call' = [call EXCEPT !.phase = "joining", !.timedOut = TRUE]
    /\ UNCHANGED << store, env, tasks, hist >>

\* A call that hands back a status: "failed" when one of its pipelines did not end
\* with its pairs committed or up to date.
ReturnedWithStatus(result) ==
    /\ call' = [call EXCEPT
                   !.phase = "returned",
                   !.result = IF /\ result = None
                                 /\ \E i \in 1..Len(tasks) :
                                        tasks[i].end \notin {"committed", "up_to_date"}
                              THEN "failed" ELSE result]
    /\ hist' = Append(hist, [category |-> call.category, countries |-> call.countries,
                             env |-> env, store |-> store])

\* What a call hands back, and the record of it (of the first MaxCalls calls).
Returned(result) ==
    /\ call' = [call EXCEPT !.phase = "returned", !.result = result]
    /\ hist' = IF Len(hist) < MaxCalls
               THEN Append(hist, [category |-> call.category, countries |-> call.countries,
                                  env |-> env, store |-> store])
               ELSE hist

\* The end of the with block: ThreadPoolExecutor.__exit__ is shutdown(wait=True),
\* which returns when every task has ended. update_list_health_status then runs
\* _fetch_unicef_data in the caller's thread; the other calls return None.
LeavePool ==
    /\ call.phase = "joining"
    /\ AllPoolDone
    /\ IF call.category = "health_status"
       THEN /\ call' = [call EXCEPT !.phase = "inline"]
            /\ tasks' = Append(tasks,
                               NewTask("_fetch_unicef_data", UpperList(call.countries), TRUE))
            /\ hist' = hist
       ELSE /\ Returned(None)
            /\ tasks' = tasks
    /\ UNCHANGED << store, env >>

\* _fetch_unicef_data has ended: the call returns None, or the exception that left
\* the function leaves update_list_health_status too.
InlineEnds ==
    /\ call.phase = "inline"
    /\ \E i \in 1..Len(tasks) :
          /\ tasks[i].inline
          /\ tasks[i].pc = "done"
          /\ Returned(IF Escaped(tasks[i]) THEN tasks[i].exc ELSE None)
    /\ UNCHANGED << store, env, tasks >>

\* update_data of app.py: the text shown after the refresh of the page's category,
\* "Update error" when the call raised (bare except) and "Data up to date" otherwise.
UpdateText(result) == IF result = None THEN "Data up to date" ELSE "Update error"

\* Around the calls: the day passes, the provider publishes a new revision of its
\* resources, or the irregularity of the provider ends.
NextDay ==
    /\ call.phase \in {"idle", "returned"}
    /\ call.n < MaxCalls
    /\ env.today < MaxDay
    /\ env' = [env EXCEPT !.today = @ + 1]
    /\ UNCHANGED << store, call, tasks, hist >>

Republish ==
    /\ call.phase = "returned"
    /\ call.n < MaxCalls
    /\ env.pub < env.today
    /\ env' = [env EXCEPT !.pub = env.today]
    /\ UNCHANGED << store, call, tasks, hist >>

Recover ==
    /\ call.phase = "returned"
    /\ call.n < MaxCalls
    /\ env.failure # "none" \/ env.variant # "plain" \/ env.shape # "ok"
    /\ env' = [env EXCEPT !.failure = "none", !.variant = "plain", !.shape = "ok"]
    /\ UNCHANGED << store, call, tasks, hist >>

Next ==
    \/ \E category \in Categories, country_list \in CountryLists : Call(category, country_list)
    \/ \E i \in 1..Len(tasks) : Fetch(i)
    \/ \E i \in 1..Len(tasks) : Select(i)
    \/ \E i \in 1..Len(tasks) : Write(i)
    \/ WaitAllDone
    \/ WaitTimesOut
    \/ LeavePool
    \/ InlineEnds
    \/ NextDay
    \/ Republish
    \/ Recover

Spec == Init /\ [][Next]_vars

\* ------------------------------------------------ refreshes without end
\* The refresh of one category is invoked again and again for the same country,
\* with a provider that serves well-formed listings and tables and never fails;
\* the days pass and the provider republishes.
LiveCountries == << "FRA" >>

InitLive ==
    /\ store = EmptyStore
    /\ env = [today |-> 1, pub |-> 1, shape |-> "ok", variant |-> "plain", failure |-> "none"]
    /\ call = [category |-> None, countries |-> << >>, phase |-> "idle",
               timedOut |-> FALSE, result |-> None, n |-> 0, before |-> EmptyStore]
    /\ tasks = << >>
    /\ hist = << >>

\* update_list_*(country_list), called once more.
CallAgain(category) ==
    /\ call.phase \in {"idle", "returned"}
    /\ call.n > 0 => category = call.category
    /\ call' = [category |-> category, countries |-> LiveCountries,
                phase |-> IF category = "health_systems" THEN "joining" ELSE "waiting",
                timedOut |-> FALSE, result |-> None, n |-> 1, before |-> store]
    /\ tasks' = SubmittedTasks(category, LiveCountries)
    /\ UNCHANGED << store, env, hist >>

NextLive ==
    \/ \E category \in Categories : CallAgain(category)
    \/ \E i \in 1..Len(tasks) : Fetch(i)
    \/ \E i \in 1..Len(tasks) : Select(i)
    \/ \E i \in 1..Len(tasks) : Write(i)
    \/ WaitAllDone
    \/ WaitTimesOut
    \/ LeavePool
    \/ InlineEnds
    \/ NextDay
    \/ Republish

\* A task of the running call can start its fetch function: the enabling
\* condition of Fetch.
FetchReady ==
    \E i \in 1..Len(tasks) : TaskActive(i) /\ tasks[i].pc = "queued" /\ MayStart(i)

FetchAny == \E i \in 1..Len(tasks) : Fetch(i)

\* The steps of the program, as opposed to those of the calendar and the provider.
ProgramStep ==
    \/ \E category \in Categories : CallAgain(category)
    \/ \E i \in 1..Len(tasks) : Select(i)
    \/ \E i \in 1..Len(tasks) : Write(i)
    \/ WaitAllDone
    \/ WaitTimesOut
    \/ LeavePool
    \/ InlineEnds

\* The calls keep coming, and the threads of a call and the calling thread keep
\* running: weak fairness of the program's steps, the one of Fetch written out
\* with its enabling condition.
SpecLive ==
    /\ InitLive
    /\ [][NextLive]_vars
    /\ WF_vars(ProgramStep)
    /\ ([]<>(~FetchReady) \/ []<><<FetchAny>>_vars)

\* ------------------------------------------------ one pair, two threads
\* A country list that names a country twice gives two tasks of one call the same
\* pairs; each task resolves its own catalog when its thread starts, and the
\* provider may publish between the two.
TwiceCountries == << "FRA", "FRA" >>

InitTwice ==
    /\ store = EmptyStore
    /\ env = [today |-> 1, pub |-> 1, shape |-> "ok", variant |-> "plain", failure |-> "none"]
    /\ call = [category |-> None, countries |-> << >>, phase |-> "idle",
               timedOut |-> FALSE, result |-> None, n |-> 0, before |-> EmptyStore]
    /\ tasks = << >>
    /\ hist = << >>

\* update_list_*(country_list) with the repeated code.
CallTwice(category) ==
    /\ call.phase \in {"idle", "returned"}
    /\ call.n < MaxCalls
    /\ call.n > 0 => category = call.category
    /\ call' = [category |-> category, countries |-> TwiceCountries,
                phase |-> IF category = "health_systems" THEN "joining" ELSE "waiting",
                timedOut |-> FALSE, result |-> None, n |-> call.n + 1, before |-> store]
    /\ tasks' = SubmittedTasks(category, TwiceCountries)
    /\ UNCHANGED << store, env, hist >>

\* The provider publishes the resources again while a call is running.
RepublishDuringCall ==
    /\ call.phase \notin {"idle", "returned"}
    /\ env.pub < env.today
    /\ env' = [env EXCEPT !.pub = env.today]
    /\ UNCHANGED << store, call, tasks, hist >>

NextTwice ==
    \/ \E category \in Categories : CallTwice(category)
    \/ \E i \in 1..Len(tasks) : Fetch(i)
    \/ \E i \in 1..Len(tasks) : Select(i)
    \/ \E i \in 1..Len(tasks) : Write(i)
    \/ WaitAllDone
    \/ WaitTimesOut
    \/ LeavePool
    \/ InlineEnds
    \/ NextDay
    \/ RepublishDuringCall

SpecTwice == InitTwice /\ [][NextTwice]_vars

\* ------------------------------------------------ _get_name_country alone
\* The method applied to every list of at most MaxIds codes, known or not; the
\* list is call.countries and what the method returns is call.result.
IdCodes == {"fra", "dza", "xyz", "qqq"}

IdLists == UNION {[1..n -> IdCodes] : n \in 0..MaxIds}

InitNames ==
    /\ store = EmptyStore
    /\ env = [today |-> 1, pub |-> 1, shape |-> "ok", variant |-> "plain", failure |-> "none"]
    /\ call \in [category : {None}, countries : IdLists, phase : {"idle"},
                  timedOut : {FALSE}, result : {None}, n : {0}, before : {EmptyStore}]
    /\ tasks = << >>
    /\ hist = << >>

\* names, not_countries, ids = self._get_name_country(ids)
ApplyGetNameCountry ==
    /\ call.phase = "idle"
    /\ call' = [call EXCEPT !.phase = "returned", !.result = GetNameCountry(call.countries)]
    /\ UNCHANGED << store, env, tasks, hist >>

NextNames == ApplyGetNameCountry

SpecNames == InitNames /\ [][NextNames]_vars

\* ------------------------------------------------ update_all_health_status
\* country_list of update_all_health_status: the alpha-3 codes of countries.json,
\* lowercased, in file order.
AllCountryList == [k \in 1..Len(CountriesJson) |-> Lower(CountriesJson[k].alpha3)]

\* executor.map(update_list_health_status, country_list): the function is called
\* once per element with that element, a str, as its country_list, whose loop
\* "for country_id in country_list" then walks the characters of the code. The
\* calls are taken one after the other.
MapCall(k) ==
    /\ call.phase \in {"idle", "returned"}
    /\ k = call.n + 1
    /\ k <= Len(AllCountryList)
    /\ call' = [category |-> "health_status", countries |-> Characters(AllCountryList[k]),
                phase |-> "waiting", timedOut |-> FALSE, result |-> None, n |-> k,
                before |-> store]
    /\ tasks' = SubmittedTasks("health_status", Characters(AllCountryList[k]))
    /\ UNCHANGED << store, env, hist >>

NextAll ==
    \/ \E k \in 1..Len(AllCountryList) : MapCall(k)
    \/ \E i \in 1..Len(tasks) : Fetch(i)
    \/ WaitAllDone
    \/ WaitTimesOut
    \/ LeavePool
    \/ InlineEnds

SpecAll == Init /\ [][NextAll]_vars

\* ------------------------------------------------------------------ claims
\* The committed rows of the value table, and the rows each open transaction wrote.
TimedTables == {store.timed} \cup {tasks[i].ws.timed : i \in 1..Len(tasks)}

\* C1: after any sequence and any interleaving of upserts by any pipelines, the
\* Timed_Indicators store holds at most one row for every (id_indicator,
\* id_country, year_recorded, sexe) tuple.
C1_KeyUniqueness ==
    \A table \in TimedTables :
        \A r1, r2 \in table : TimedKey(r1) = TimedKey(r2) => r1 = r2

\* C1 witness: a committed value row replaced the row the key held before the call.
C1_KeyUpsertedTwice ==
    \E r \in store.timed, q \in call.before.timed :
        TimedKey(r) = TimedKey(q) /\ r.value # q.value

\* The provider of two runs is the same: publication dates, listings, tables and
\* failures did not change.
SameProvider(e1, e2) ==
    /\ e1.pub = e2.pub
    /\ e1.shape = e2.shape
    /\ e1.variant = e2.variant
    /\ e1.failure = e2.failure

\* C2: running a refresh twice in succession for the same countries, with the
\* publication dates and the tables of the provider unchanged between the two
\* runs, leaves the store after the second run identical to the store after the
\* first run (Country, Indicator and Timed_Indicators rows).
C2_Idempotence ==
    \A k \in 1..(Len(hist) - 1) :
        (/\ hist[k].category = hist[k + 1].category
         /\ hist[k].countries = hist[k + 1].countries
         /\ SameProvider(hist[k].env, hist[k + 1].env))
        => hist[k + 1].store = hist[k].store

\* The metadata row and the value rows of a pair in a store.
RowsOfPair(st, p) ==
    [indicator |-> {r \in st.indicator : r.id_indicator = p[1] /\ r.id_country = p[2]},
     timed |-> {r \in st.timed : r.id_indicator = p[1] /\ r.id_country = p[2]}]

\* C3: when the value step of a group fails after its metadata step succeeded, then
\* once the pipeline has ended the store shows neither the new metadata nor any new
\* value of the group, whatever the failure (database error or KeyError) and on
\* both upsert paths (Indicators.send_data_to_db, Indicator.send_data_to_db).
C3_AtomicGroup ==
    \A i \in 1..Len(tasks) :
        tasks[i].pc = "done" =>
            \A p \in tasks[i].failed : RowsOfPair(store, p) = RowsOfPair(call.before, p)

\* C4: the staleness check returns exactly the requested pairs that have no
\* metadata row or whose stored update date is strictly older than the publication
\* date of the selected catalog entry (a pair with an equal date is not returned),
\* for every pipeline, selected by index or by title.
C4_StalenessCheckExact ==
    \A i \in 1..Len(tasks) :
        tasks[i].checked => tasks[i].verdict = Ret(tasks[i].expected)

\* The pairs a pipeline writes or is about to write in its transaction.
PairsInWrite(t) ==
    {<< r.id_indicator, r.id_country >> : r \in t.ws.indicator \cup t.ws.timed}
    \cup (IF t.pc \notin {"select", "write"} THEN {}
          ELSE IF IsSingle(t)
               THEN {<< IndicatorsArg(t.kind)[1], Lower(t.groups[k]) >> : k \in t.gi..Len(t.groups)}
               ELSE {<< t.groups[k], t.id_country >> : k \in 1..Len(t.groups)})

\* C5: a pair whose stored update date is at or after the publication date of the
\* catalog entry is never re-fetched (no metadata write and no value write for it),
\* even when other pairs of the same resource are stale; a pipeline all of whose
\* pairs are so downloads nothing and leaves the store unchanged.
C5_FreshNeverRefetched ==
    \A i \in 1..Len(tasks) :
        /\ tasks[i].fresh \cap PairsInWrite(tasks[i]) = {}
        /\ tasks[i].pc = "done" =>
               \A p \in tasks[i].fresh : RowsOfPair(store, p) = RowsOfPair(call.before, p)
        /\ (tasks[i].pc # "queued" /\ tasks[i].fresh = RequestedPairs(tasks[i])) =>
               ~tasks[i].downloaded /\ tasks[i].pc = "done"

\* C5 witness: a pipeline committed its stale pairs while another pair of its
\* resource was fresh.
C5_FreshBesideStale ==
    \E i \in 1..Len(tasks) : tasks[i].fresh # {} /\ tasks[i].end = "committed"

\* The pairs of a pipeline all have their metadata row in the store.
AllStored(t) ==
    \A p \in RequestedPairs(t) : SelectIndicator(store, p[1], p[2]) # Nothing

\* C6: in one refresh call for countries A and B, when the download of A's task
\* fails, the tasks of B still run to completion and their data is committed.
C6_PartialFailureIsolation ==
    (/\ call.phase = "returned"
     /\ \E a \in PoolTasks : tasks[a].end = "download_failed")
    => \A b \in PoolTasks :
           (/\ ~IsSingle(tasks[b])
            /\ GetCountryName(Owner(tasks[b])) # None
            /\ ~FailureHits(Owner(tasks[b])))
           => /\ tasks[b].end \in {"committed", "up_to_date"}
              /\ AllStored(tasks[b])

\* C7: an error inside one pipeline (catalog, download, extraction or upsert) never
\* leaves the refresh call and never keeps another pipeline of the call from
\* running, the UNICEF pipeline run in the caller's thread included.
C7_ErrorContainment ==
    call.phase = "returned" =>
        /\ call.result = None
        /\ \A i \in 1..Len(tasks) : tasks[i].pc = "done"

\* The provider gives a pipeline no catalog: its listing is unreachable or has no
\* entry that parses.
CatalogUnresolved(t, e) ==
    \/ ListingUnreachable(Owner(t), e)
    \/ e.shape \in {"all_malformed", "no_resource_list"}

\* C8: when catalog resolution fails for a country or a source, the refresh call
\* completes without raising, the pairs are skipped (no download is attempted and
\* they are not taken as up to date) and the store is unchanged for them.
C8_CatalogFailureSkips ==
    call.phase = "returned" =>
        \A i \in 1..Len(tasks) :
            CatalogUnresolved(tasks[i], hist[Len(hist)].env) =>
                /\ call.result = None
                /\ ~tasks[i].downloaded
                /\ tasks[i].end # "up_to_date"
                /\ \A p \in RequestedPairs(tasks[i]) :
                       RowsOfPair(store, p) = RowsOfPair(call.before, p)

\* C9: a refresh call returns as soon as all its tasks have completed or the 30 s
\* wait has elapsed; a task still running when the wait elapses does not delay
\* the return of the call.
C9_ReturnNotDelayed ==
    (call.phase = "joining" /\ call.timedOut) => ENABLED LeavePool

ServedRows(t) ==
    LET c == IF IsSingle(t)
             THEN GetDatasetsListSingle(SourceDataset(t.kind), DatasetIndexArg(t.kind), env)
             ELSE GetDatasetsListPage(SourceDataset(t.kind), Lower(t.arg),
                                      GetCountryName(Lower(t.arg)), env)
        s == IF c.exc # NoExc THEN Raise(c.exc)
             ELSE SelectByTitle(c.val, DatasetNameArg(t.kind), DatasetIndexArg(t.kind))
        r == IF s.exc # NoExc THEN Raise(s.exc)
             ELSE ReadCsvFromList(SourceDataset(t.kind), Owner(t), c.val, s.val, env)
    IN IF r.exc # NoExc THEN << >> ELSE r.val.rows

\* The served table has a row of the pair: its indicator code, and its country
\* code in the letter case of the table.
Carries(t, p) ==
    \E k \in 1..Len(ServedRows(t)) :
        ServedRows(t)[k].code = p[1] /\ Lower(ServedRows(t)[k].area) = p[2]

\* The requested pairs the staleness check had to return and that had no
\* metadata row when the call started.
NewStalePairs(t) ==
    {p \in RequestedPairs(t) :
        /\ \E k \in 1..Len(t.expected) :
              p = IF IsSingle(t) THEN << IndicatorsArg(t.kind)[1], t.expected[k] >>
                  ELSE << t.expected[k], Lower(t.arg) >>
        /\ SelectIndicator(call.before, p[1], p[2]) = Nothing}

\* C11: after a pipeline run has completed without error for a stale pair that had
\* no metadata row and that the downloaded table carries, the store holds an
\* Indicator row for (indicator, lowercase country) whose update date is the
\* publication date of the catalog entry, and at least one Timed_Indicators row
\* of the pair.
C11_SuccessPostcondition ==
    call.phase \in {"waiting", "joining", "inline"} =>
        \A i \in 1..Len(tasks) :
            (tasks[i].pc = "done" /\ tasks[i].exc = NoExc /\ tasks[i].downloaded) =>
                \A p \in NewStalePairs(tasks[i]) :
                    Carries(tasks[i], p) =>
                        /\ \E r \in store.indicator :
                              /\ r.id_indicator = p[1]
                              /\ r.id_country = p[2]
                              /\ r.update = env.pub
                        /\ \E r \in store.timed :
                              r.id_indicator = p[1] /\ r.id_country = p[2]

\* The catalog the provider serves to a pipeline, and the verdict the staleness
\* check of the pipeline gives over the committed store as it is now.
ServedCatalog(t) ==
    IF IsSingle(t)
    THEN GetDatasetsListSingle(SourceDataset(t.kind), DatasetIndexArg(t.kind), env)
    ELSE GetDatasetsListPage(SourceDataset(t.kind), Lower(t.arg),
                             GetCountryName(Lower(t.arg)), env)

NextCheck(t) ==
    IF ServedCatalog(t).exc # NoExc THEN Raise(ServedCatalog(t).exc)
    ELSE IF IsSingle(t)
    THEN CheckUpdateDateSingle(store, IndicatorsArg(t.kind)[1], LoweredArg(t),
                               ServedCatalog(t).val, DatasetIndexArg(t.kind))
    ELSE CheckUpdateDatePage(store, IndicatorsArg(t.kind), Lower(t.arg),
                             ServedCatalog(t).val, DatasetIndexArg(t.kind))

\* The download of the pipeline was attempted and failed.
DownloadFailed(t) ==
    t.downloaded /\ env.failure = "download_fails" /\ FailureHits(Owner(t))

\* C12: when the download of a table fails (and so yields an empty table), no
\* upsert happens for any pair that depended on it: the pipeline opens no
\* transaction, the Indicator and Timed_Indicators rows of its pairs stay as they
\* were before the call, and the next staleness check returns every such pair again.
C12_DownloadFailureWritesNothing ==
    call.phase \in {"waiting", "joining", "inline"} =>
        \A i \in 1..Len(tasks) :
            DownloadFailed(tasks[i]) =>
                /\ tasks[i].pc = "done"
                /\ tasks[i].ws = EmptyStore
                /\ \A p \in RequestedPairs(tasks[i]) :
                      RowsOfPair(store, p) = RowsOfPair(call.before, p)
                /\ NextCheck(tasks[i]).exc = NoExc
                /\ \A k \in 1..Len(tasks[i].verdict.val) :
                      \E j \in 1..Len(NextCheck(tasks[i]).val) :
                          NextCheck(tasks[i]).val[j] = tasks[i].verdict.val[k]

\* C12 witness: a pipeline whose check returned stale pairs met a failed download,
\* at the end of a call during which another pipeline committed rows.
C12_FailedBesideCommitted ==
    /\ call.phase = "joining"
    /\ AllPoolDone
    /\ store # call.before
    /\ \E i \in 1..Len(tasks) :
          DownloadFailed(tasks[i]) /\ tasks[i].verdict.val # << >>

\* The indicator codes the check of a per-country pipeline returned, split by
\* whether the code column of the served table holds them.
CodeServed(t, code) == \E k \in 1..Len(ServedRows(t)) : ServedRows(t)[k].code = code

GapCodes(t) ==
    IF IsSingle(t) \/ ServedRows(t) = << >> THEN {}
    ELSE {c \in {t.verdict.val[k] : k \in 1..Len(t.verdict.val)} : ~CodeServed(t, c)}

ServedCodes(t) ==
    IF IsSingle(t) THEN {}
    ELSE {c \in {t.verdict.val[k] : k \in 1..Len(t.verdict.val)} : CodeServed(t, c)}

\* C13: when a requested stale indicator code is absent from the code column of
\* the downloaded table, the pipeline drops that pair without raising: the pair
\* gets no metadata row and stays stale, and the other stale pairs of the batch
\* are upserted and committed.
C13_ExtractionGap ==
    call.phase \in {"waiting", "joining", "inline"} =>
        \A i \in 1..Len(tasks) :
            (tasks[i].pc = "done" /\ tasks[i].downloaded /\ GapCodes(tasks[i]) # {}) =>
                /\ tasks[i].exc = NoExc
                /\ \A g \in GapCodes(tasks[i]) :
                      /\ RowsOfPair(store, << g, Lower(tasks[i].arg) >>)
                            = RowsOfPair(call.before, << g, Lower(tasks[i].arg) >>)
                      /\ \A r \in RowsOfPair(store, << g, Lower(tasks[i].arg) >>).indicator :
                            r.update < env.pub
                /\ \A c \in ServedCodes(tasks[i]) :
                      /\ \E r \in store.indicator :
                            /\ r.id_indicator = c
                            /\ r.id_country = Lower(tasks[i].arg)
                            /\ r.update = env.pub
                      /\ \E r \in store.timed :
                            r.id_indicator = c /\ r.id_country = Lower(tasks[i].arg)

\* The pairs the check of a pipeline returned.
ReturnedPairs(t) ==
    {IF IsSingle(t) THEN << IndicatorsArg(t.kind)[1], t.verdict.val[k] >>
     ELSE << t.verdict.val[k], Lower(t.arg) >> : k \in 1..Len(t.verdict.val)}

\* The rows of a pair the pipeline extracts from the served table: those of the
\* indicator code and of the country code in capitals.
ExtractedRows(t, p) ==
    LET of(row) == row.code = p[1] /\ row.area = Upper(p[2])
    IN SelectSeq(ServedRows(t), of)

\* C14: when a downloaded row has a date or a value that cannot be coerced to the
\* type of its column, only that row is dropped: the other rows of the pair are
\* upserted and the transaction commits.
C14_BadRowDroppedAlone ==
    call.phase \in {"waiting", "joining", "inline"} =>
        \A i \in 1..Len(tasks) :
            \A p \in ReturnedPairs(tasks[i]) :
                (/\ tasks[i].pc = "done"
                 /\ tasks[i].end \notin {"absent", "not_countries"}
                 /\ tasks[i].downloaded
                 /\ \E k \in 1..Len(ExtractedRows(tasks[i], p)) :
                       ColumnsReject(ExtractedRows(tasks[i], p)[k]))
                => /\ tasks[i].end = "committed"
                   /\ \A k \in 1..Len(ExtractedRows(tasks[i], p)) :
                         LET row == ExtractedRows(tasks[i], p)[k]
                         IN IF ColumnsReject(row)
                            THEN \A r \in store.timed :
                                    ~(/\ r.id_indicator = p[1] /\ r.id_country = p[2]
                                      /\ r.year_recorded = row.year)
                            ELSE \E r \in store.timed :
                                    /\ r.id_indicator = p[1] /\ r.id_country = p[2]
                                    /\ r.year_recorded = row.year /\ r.value = row.value

\* C15: concurrent upserts for different (indicator, country) pairs proceed
\* independently, also when two pipelines write pairs of one country that has no
\* Country row yet (the WHO and the World Bank pipeline of a country): both
\* transactions commit, and none fails or rolls back because of the other.
C15_ConcurrentUpsertsIndependent ==
    \A i, j \in 1..Len(tasks) :
        (/\ i # j
         /\ ~IsSingle(tasks[i]) /\ ~IsSingle(tasks[j])
         /\ Lower(tasks[i].arg) = Lower(tasks[j].arg)
         /\ tasks[j].end = "committed")
        => ~(tasks[i].end = "upsert" /\ tasks[i].exc = "IntegrityError")

\* C16: last write wins per key. When a transaction commits, every key it upserted
\* holds the value of its last row of that key, a key that was stored before is
\* overwritten in its value only (no second row, no row removed), and the rows
\* of every other key are unchanged.
C16_LastWriteWins ==
    [][\A i \in 1..Len(tasks) :
          (/\ i \in 1..Len(tasks')
           /\ tasks[i].pc = "write"
           /\ tasks'[i].end = "committed")
          => LET written == WriteStep(tasks[i]).ws.timed
             IN /\ written \subseteq store'.timed
                /\ \A r \in store'.timed :
                      (\A q \in written : TimedKey(q) # TimedKey(r)) => r \in store.timed
                /\ \A r \in store.timed :
                      \/ r \in store'.timed
                      \/ \E q \in written : TimedKey(q) = TimedKey(r)
                /\ \A r1, r2 \in store'.timed : TimedKey(r1) = TimedKey(r2) => r1 = r2
      ]_vars

\* C16 witness: a commit gave a stored key the value of the new revision while the
\* row of another key stayed as it was before the call.
C16_OverwrittenBesideUnchanged ==
    /\ \E r \in store.timed, q \in call.before.timed :
          TimedKey(r) = TimedKey(q) /\ q.value < r.value /\ r.value \in {env.pub, env.pub + 1}
    /\ \E u \in store.timed : u \in call.before.timed

\* C17: in every committed state of the store, every Country row has at least one
\* Indicator metadata row of the same country code.
C17_CountryHasIndicator ==
    \A c \in store.country : \E r \in store.indicator : r.id_country = c.id_country

\* C18: a Country row is inserted only for a code that is not stored yet, and once
\* the row of a code exists no step of any pipeline changes its display name or
\* deletes it.
C18_CountryRowsKept ==
    [][/\ store.country \subseteq store'.country
       /\ \A c \in store'.country \ store.country :
             \A d \in store.country : d.id_country # c.id_country
      ]_vars

\* C18 witness: a per-country pipeline committed new rows for a country whose
\* Country row was stored before the call, and the row is still there.
C18_CommittedOverStoredCountry ==
    \E i \in 1..Len(tasks) :
        /\ ~IsSingle(tasks[i])
        /\ tasks[i].end = "committed"
        /\ store.indicator # call.before.indicator
        /\ \E c \in call.before.country :
              c.id_country = Lower(tasks[i].arg) /\ c \in store.country

\* The lowercase alpha-3 codes.
LowerCaseCodes == {"fra", "dza", "xyz"}

ExpectedCatalog(t) ==
    LET items == ListingItems(SourceDataset(t.kind), env.shape, env.pub)
        parses(item) == item.parses
        kept == SelectSeq(items, parses)
    IN [k \in 1..Len(kept) |-> [title |-> kept[k].title, update_date |-> kept[k].update_date]]

\* The listing page of the pipeline was served and holds a resource list.
ListingServed(t) ==
    /\ ~ListingUnreachable(Owner(t), env)
    /\ env.shape # "no_resource_list"

\* C20: the catalog _get_datasets_list returns (FetchPage and FetchPageSingle) is
\* the entries of the listing in provider order with exactly the unparseable
\* entries removed: a malformed entry is skipped without raising and does not
\* suppress the entries after it, and a listing with no parseable entry yields an
\* empty catalog, not an exception.
C20_CatalogIsParsedListing ==
    call.phase \in {"waiting", "joining", "inline"} =>
        \A i \in 1..Len(tasks) :
            ListingServed(tasks[i]) =>
                /\ tasks[i].pc \in {"select", "write"} =>
                      tasks[i].datasets_list = Frame(ExpectedCatalog(tasks[i]))
                /\ ~(tasks[i].pc = "done" /\ tasks[i].end = "catalog")

\* The (pipeline, argument) combinations of the tasks of the call, the codes in
\* lowercase.
Combinations ==
    {<< tasks[i].kind,
        IF IsSingle(tasks[i]) THEN LoweredArg(tasks[i]) ELSE << Lower(tasks[i].arg) >> >> :
        i \in 1..Len(tasks)}

\* The combinations update_list_health_status launches for the one-code list <<c>>.
CombinationsOfCode(c) ==
    {<< "_fetch_who_data", << c >> >>, << "_fetch_world_bank_data", << c >> >>,
     << "_fetch_unicef_data", << c >> >>}

\* C21: update_all_health_status refreshes the same (source, country) combinations
\* as update_list_health_status over the known codes: the call it makes for a
\* known code has launched, when it returns, one WHO and one World Bank pipeline
\* with that code as country_id and the UNICEF pipeline for that code.
C21_AllRefreshesEveryCode ==
    (call.phase = "returned" /\ call.n \in 1..Len(AllCountryList)) =>
        Combinations = CombinationsOfCode(AllCountryList[call.n])

\* C22: after a refresh action of the UI for a category, the status shown is
\* "Update error" whenever at least one pipeline of the refresh failed, and
\* "Data up to date" only when none failed.
C22_StatusReportsFailure ==
    call.phase = "returned" =>
        (UpdateText(call.result) = "Update error"
            <=> \E i \in 1..Len(tasks) : tasks[i].exc # NoExc)

\* The place of a step in the order catalog resolution, choice of the catalog
\* entry, staleness check, download, extraction, upsert.
StepRank(step) ==
    CASE step = "catalog" -> 1 [] step = "choice" -> 2 [] step = "check" -> 3
      [] step = "download" -> 4 [] step = "extract" -> 5 [] OTHER -> 6

\* C23: within every pipeline the steps run strictly in the order catalog
\* resolution (the choice of the catalog entry included), staleness check,
\* download, extraction, upsert; the download happens only after the check
\* returned at least one stale pair, and the upsert only after a download.
C23_StepsInOrder ==
    \A i \in 1..Len(tasks) :
        LET trace == tasks[i].trace
        IN /\ \A j, k \in 1..Len(trace) : j < k => StepRank(trace[j]) < StepRank(trace[k])
           /\ (\E k \in 1..Len(trace) : trace[k] = "download") =>
                 tasks[i].returned # << >>
           /\ (\E k \in 1..Len(trace) : trace[k] = "upsert") =>
                 \E k \in 1..Len(trace) : trace[k] = "download"

\* The number of pool tasks of the call that run pipeline `kind` for argument `arg`.
Started(kind, arg) ==
    Cardinality({i \in PoolTasks : tasks[i].kind = kind /\ tasks[i].arg = arg})

\* The tasks of the call are those of its category: the pool pipelines once each,
\* and the UNICEF pipeline once, after the pool phase, for update_list_health_status.
StartedOnce ==
    LET L == call.countries
        inline == {i \in 1..Len(tasks) : tasks[i].inline}
    IN /\ call.category = "health_status" =>
             /\ Cardinality(PoolTasks) = 2 * Len(L)
             /\ \A k \in 1..Len(L) :
                   /\ Started("_fetch_who_data", L[k]) = 1
                   /\ Started("_fetch_world_bank_data", L[k]) = 1
             /\ call.phase \in {"waiting", "joining"} => inline = {}
             /\ call.phase \in {"inline", "returned"} =>
                   /\ Cardinality(inline) = 1
                   /\ \A i \in inline :
                         /\ tasks[i].kind = "_fetch_unicef_data"
                         /\ Len(tasks[i].arg) = Len(L)
                         /\ \A k \in 1..Len(L) : Lower(tasks[i].arg[k]) = Lower(L[k])
                         /\ AllPoolDone
       /\ call.category = "services_coverages" =>
             /\ Cardinality(PoolTasks) = 4 * Len(L)
             /\ inline = {}
             /\ \A k \in 1..Len(L) :
                   \A kind \in {"_fetch_hiv_data", "_fetch_tuberculosis_data",
                                "_fetch_malaria_data", "_fetch_immunization_data"} :
                       Started(kind, L[k]) = 1
       /\ call.category = "risk_factors" =>
             /\ Cardinality(PoolTasks) = 4
             /\ inline = {}
             /\ \A kind \in {"_fetch_weight_data", "_fetch_drink_safe_data",
                             "_fetch_drink_data", "_fetch_birth_data"} :
                   Cardinality({i \in PoolTasks : tasks[i].kind = kind}) = 1
       /\ call.category = "health_systems" =>
             /\ Cardinality(PoolTasks) = Len(L)
             /\ inline = {}
             /\ \A k \in 1..Len(L) : Started("_fetch_health_systems_data", L[k]) = 1

\* Within a call a pipeline that has started is never queued again, and one that
\* has ended stays as it ended.
NeverRestarted ==
    \A i \in 1..Len(tasks) :
        call'.n = call.n =>
            /\ i \in 1..Len(tasks')
            /\ tasks[i].pc # "queued" => tasks'[i].pc # "queued"
            /\ tasks[i].pc = "done" => tasks'[i] = tasks[i]

\* C24: each refresh call starts every pipeline of its category exactly once, and
\* never restarts one that failed: two pool pipelines per country and then one
\* UNICEF pipeline for update_list_health_status, four per country for
\* update_list_services_coverages, four in all for update_list_risk_factors,
\* one per country for update_list_health_systems.
C24_EveryPipelineOnce == [](call.n > 0 => StartedOnce) /\ [][NeverRestarted]_vars

\* C24 witness: a call for two countries has returned after one of its pipelines
\* failed and the UNICEF pipeline ran.
C24_ReturnedAfterFailure ==
    /\ call.phase = "returned"
    /\ call.category = "health_status"
    /\ Len(call.countries) = 2
    /\ \E i \in PoolTasks : tasks[i].exc # NoExc
    /\ \E i \in 1..Len(tasks) : tasks[i].inline /\ tasks[i].pc = "done"

\* The pairs of the list the staleness check of a pipeline returned.
StalePairs(t) ==
    {IF IsSingle(t) THEN << IndicatorsArg(t.kind)[1], t.returned[k] >>
     ELSE << t.returned[k], Lower(t.arg) >> : k \in 1..Len(t.returned)}

\* The rows a pipeline that has extracted hands to the upsert for a pair: those of
\* the group of the pair, none when the pair is in no group.
HandedRows(t, p) ==
    LET name == IF IsSingle(t) THEN p[2] ELSE p[1]
        at == {k \in 1..Len(t.groups) : t.groups[k] = name}
    IN IF at = {} THEN << >> ELSE t.data[CHOOSE k \in at : TRUE]

\* C25: for each stale pair, the rows handed to the upsert are exactly the rows of
\* the table whose indicator code is the pair's and, in a single-document table,
\* whose country code in capitals is the pair's country: a pair with a matching
\* row gets a non-empty row set, and no row of another code.
C25_ExtractedRowsMatch ==
    call.phase \in {"waiting", "joining", "inline"} =>
        \A i \in 1..Len(tasks) :
            (\/ tasks[i].pc \in {"select", "write"}
             \/ tasks[i].pc = "done" /\ tasks[i].end = "absent")
            => \A p \in StalePairs(tasks[i]) :
                   HandedRows(tasks[i], p) = ExtractedRows(tasks[i], p)

\* Every requested pair that the served table carries has a metadata row whose
\* update date is the current publication date of the provider.
ServedPairsFresh ==
    \A i \in 1..Len(tasks) :
        \A p \in RequestedPairs(tasks[i]) :
            Carries(tasks[i], p) =>
                \E r \in store.indicator :
                    r.id_indicator = p[1] /\ r.id_country = p[2] /\ r.update = env.pub

\* C26: eventual freshness. When the provider keeps serving a listing and a table
\* that hold a requested pair and the refresh of the category is invoked again and
\* again with no network or database failure, the pair comes to have a metadata
\* row whose update date is the current publication date, both when it was never
\* stored and after every republication of its resource.
C26_EventualFreshness == []<>(call.n > 0 /\ ServedPairsFresh)

\* C27: for every (indicator, country) pair, the update date stored in its
\* metadata row never decreases, whatever the interleaving of the refreshes,
\* two threads that resolved their catalogs at different publication dates
\* included.
C27_UpdateNeverDecreases ==
    [][\A r \in store.indicator : \A q \in store'.indicator :
           (q.id_indicator = r.id_indicator /\ q.id_country = r.id_country)
               => q.update >= r.update]_vars

\* A store with the download date of one metadata row replaced.
AlterDownload(st, r, d) ==
    [st EXCEPT !.indicator = (@ \ {r}) \cup {[r EXCEPT !.download = d]}]

\* The verdict the staleness check of a pipeline gives over a store, with the
\* catalog the provider serves now.
CheckOn(st, t) ==
    IF ServedCatalog(t).exc # NoExc THEN Raise(ServedCatalog(t).exc)
    ELSE IF IsSingle(t)
    THEN CheckUpdateDateSingle(st, IndicatorsArg(t.kind)[1], LoweredArg(t),
                               ServedCatalog(t).val, DatasetIndexArg(t.kind))
    ELSE CheckUpdateDatePage(st, IndicatorsArg(t.kind), Lower(t.arg),
                             ServedCatalog(t).val, DatasetIndexArg(t.kind))

\* C28: the staleness decision for a pair depends only on the stored update
\* (publication) date of the pair and on the remote publication date: over two
\* stores that differ only in the stored download date of the pair, the staleness
\* check of a pipeline returns the same answer.
C28_CheckIgnoresDownload ==
    \A i \in 1..Len(tasks) :
        \A r \in store.indicator :
            << r.id_indicator, r.id_country >> \in RequestedPairs(tasks[i]) =>
                \A d \in 1..MaxDay :
                    CheckOn(AlterDownload(store, r, d), tasks[i]) = CheckOn(store, tasks[i])

\* C29: whenever a single-document pipeline inserts a Country row for a code,
\* the country_name of the row is the name countries.json gives for the code:
\* the names and the codes handed to Indicator.send_data_to_db are aligned
\* index by index, also when a stale country is absent from the downloaded table.
C29_InsertedNameIsOfCode ==
    [][\A i \in 1..Len(tasks) :
           (i <= Len(tasks') /\ IsSingle(tasks[i]) /\ tasks[i].pc = "write"
                /\ tasks'[i].pc = "done") =>
               \A r \in store'.country \ store.country :
                   r.country_name = GetCountryName(r.id_country)]_vars

\* The code has an entry in countries.json.
KnownCode(c) == GetCountryName(c) # None

UnknownCode(c) == ~KnownCode(c)

\* C30: _get_name_country(ids) returns (names, not_countries, updated_ids) where
\* not_countries is exactly the input codes with no entry in countries.json,
\* updated_ids is exactly the input codes with an entry, in input order, and names
\* has the length of updated_ids with names[k] the lowercased name of
\* updated_ids[k], for every input list, those with two or more consecutive
\* unknown codes included.
C30_GetNameCountryPartitions ==
    call.phase = "returned" =>
        /\ {call.result.not_countries[k] : k \in 1..Len(call.result.not_countries)}
               = {call.countries[k] : k \in {j \in 1..Len(call.countries) :
                                                UnknownCode(call.countries[j])}}
        /\ call.result.ids = SelectSeq(call.countries, KnownCode)
        /\ Len(call.result.names) = Len(call.result.ids)
        /\ \A k \in 1..Len(call.result.names) :
               call.result.names[k] = GetCountryName(call.result.ids[k])

====
